---------------------------- MODULE Spec2Model ----------------------------
(***************************************************************************)
(* A model of dsk2woz2 (src/dsk2woz2.c): the converter of a 35-track,     *)
(* 16-sector Apple II DSK image into a WOZ2 image.                         *)
(*                                                                         *)
(* The module holds four specifications over one set of variables:         *)
(*   SpecSector  encode_6_and_2, one action per loop of the function and   *)
(*               one per iteration of its XOR chain;                       *)
(*   SpecTrack   encode_bits_for_track, one action per bit-writer call;    *)
(*   SpecTmap    create_tmap_chunk, one action per loop iteration;         *)
(*   Spec        main, one action per statement (a call is one action).    *)
(* A specification leaves the variables of the others at their idle value. *)
(***************************************************************************)
EXTENDS Integers, Sequences, FiniteSets, TLC

VARIABLES
    \* ---- encode_6_and_2 (SpecSector)
    es_pc,          \* position in encode_6_and_2
    es_src,         \* const uint8_t * src: <<image, offset of the sector>>
    es_dest,        \* uint8_t dest[343], a function on 0..342
    es_location,    \* int location
    \* ---- encode_bits_for_track (SpecTrack)
    tk_pc,          \* position in encode_bits_for_track
    tk_image,       \* the disk image src points into
    track_number,   \* int track_number
    sector_format,  \* dsk_sector_format sector_format
    dest,           \* uint8_t * dest: the 6,656-byte track buffer
    bit_index,      \* size_t bit_index
    s,              \* int s, the physical sector
    i,              \* int i, the loop counter of the running loop
    logical_sector, \* int logical_sector
    encoded_contents, \* uint8_t encoded_contents[343]
    \* ---- create_tmap_chunk (SpecTmap)
    tm_pc,          \* position in create_tmap_chunk
    tm_chunk,       \* woz_chunk * chunk
    tm_t,           \* int t
    byte_index,     \* size_t byte_index
    \* ---- main (Spec)
    pc,             \* position in main
    argc,           \* int argc
    argv1,          \* argv[1], a sequence of characters
    image,          \* the contents of the input file
    fmt,            \* main's sector_format
    t,              \* main's loop counter
    track_data,     \* uint8_t track_data[35 * 6656]: the bytes written so far
    valid_bits_per_track,
    info_chunk, tmap_chunk, trks_chunk, writ_chunk,
    woz,            \* uint8_t * woz
    woz_image_size,
    output_index,
    crc,
    out_file,       \* what fwrite put into the output file
    stdout,         \* the message printed, "" when none
    ret             \* main's return value

es_vars == <<es_pc, es_src, es_dest, es_location>>
tk_vars == <<tk_pc, tk_image, track_number, sector_format, dest, bit_index, s, i,
             logical_sector, encoded_contents>>
tm_vars == <<tm_pc, tm_chunk, tm_t, byte_index>>
main_vars == <<pc, argc, argv1, image, fmt, t, track_data, valid_bits_per_track,
               info_chunk, tmap_chunk, trks_chunk, writ_chunk, woz, woz_image_size,
               output_index, crc, out_file, stdout, ret>>
vars == <<es_vars, tk_vars, tm_vars, main_vars>>

---------------------------------------------------------------------------
(* Program constants                                                       *)

TRACKS_PER_DISK == 35
SECTORS_PER_TRACK == 16
BYTES_PER_SECTOR == 256
BYTES_PER_TRACK == SECTORS_PER_TRACK * BYTES_PER_SECTOR
DSK_IMAGE_SIZE == TRACKS_PER_DISK * BYTES_PER_TRACK

BITS_BLOCKS_PER_TRACK == 13
BITS_BLOCK_SIZE == 512
BITS_TRACK_SIZE == BITS_BLOCKS_PER_TRACK * BITS_BLOCK_SIZE
BITS_SECTOR_CONTENTS_SIZE == 343
WOZ_HEADER_SIZE == 12

DOS_VOLUME_NUMBER == 254
TRACK_LEADER_SYNC_COUNT == 64

dsk_sector_format_dos_3_3 == 0
dsk_sector_format_prodos == 1

NULL == [null |-> TRUE]

---------------------------------------------------------------------------
(* Bounds of the model                                                     *)

\* Disk images 0..MaxImage are the inputs of SpecSector.
MaxImage == 2
\* Disk images 0..MaxTrackImage are the inputs of SpecTrack.
MaxTrackImage == 0
\* Disk images 0..MaxMainImage are the input files of Spec.
MaxMainImage == 0

---------------------------------------------------------------------------
(* C's integer operators on non-negative values                            *)

\* a ^ b, a | b, a & b, bit by bit.
RECURSIVE XorBits(_, _)
XorBits(a, b) ==
    IF a = 0 THEN b
    ELSE IF b = 0 THEN a
    ELSE (((a % 2) + (b % 2)) % 2) + 2 * XorBits(a \div 2, b \div 2)

RECURSIVE OrBits(_, _)
OrBits(a, b) ==
    IF a = 0 THEN b
    ELSE IF b = 0 THEN a
    ELSE (IF (a % 2) + (b % 2) > 0 THEN 1 ELSE 0) + 2 * OrBits(a \div 2, b \div 2)

RECURSIVE AndBits(_, _)
AndBits(a, b) ==
    IF a = 0 \/ b = 0 THEN 0
    ELSE ((a % 2) * (b % 2)) + 2 * AndBits(a \div 2, b \div 2)

\* The same on two bytes, tabulated.
XorTab == [a \in 1..256 |-> [b \in 1..256 |-> XorBits(a - 1, b - 1)] \o <<>>] \o <<>>
OrTab == [a \in 1..256 |-> [b \in 1..256 |-> OrBits(a - 1, b - 1)] \o <<>>] \o <<>>
AndTab == [a \in 1..256 |-> [b \in 1..256 |-> AndBits(a - 1, b - 1)] \o <<>>] \o <<>>

\* a ^ b, a | b, a & b of two uint8_t.
ByteXor(a, b) == XorTab[a + 1][b + 1]
ByteOr(a, b) == OrTab[a + 1][b + 1]
ByteAnd(a, b) == AndTab[a + 1][b + 1]

\* a ^ b, a | b, a & b of wider operands, byte by byte.
RECURSIVE BitXor(_, _)
BitXor(a, b) ==
    IF a < 256 /\ b < 256 THEN XorTab[a + 1][b + 1]
    ELSE XorTab[(a % 256) + 1][(b % 256) + 1] + 256 * BitXor(a \div 256, b \div 256)

RECURSIVE BitOr(_, _)
BitOr(a, b) ==
    IF a < 256 /\ b < 256 THEN OrTab[a + 1][b + 1]
    ELSE OrTab[(a % 256) + 1][(b % 256) + 1] + 256 * BitOr(a \div 256, b \div 256)

RECURSIVE BitAnd(_, _)
BitAnd(a, b) ==
    IF a < 256 /\ b < 256 THEN AndTab[a + 1][b + 1]
    ELSE AndTab[(a % 256) + 1][(b % 256) + 1] + 256 * BitAnd(a \div 256, b \div 256)

\* 2^n, n < 31.
Powers ==
    << 1, 2, 4, 8, 16, 32, 64, 128, 256, 512, 1024, 2048, 4096, 8192, 16384, 32768,
       65536, 131072, 262144, 524288, 1048576, 2097152, 4194304, 8388608, 16777216,
       33554432, 67108864, 134217728, 268435456, 536870912, 1073741824 >>

Pow2(n) == Powers[n + 1]

\* a >> n and a << n.
ShiftRight(a, n) == a \div Pow2(n)
ShiftLeft(a, n) == a * Pow2(n)

\* x has its value: a conjunction of these fixes the order in which a
\* sequence of statements is evaluated.
Evaluated(x) == {x} # {}

\* e, once x has its value.
After(x, e) == IF Evaluated(x) THEN e ELSE e

\* Step(... Step(Step(st, 1), 2) ..., 16), each application evaluated
\* before the next.
Sixteen(Step(_, _), st) ==
    LET s1 == Step(st, 1)
        s2 == Step(s1, 2)
        s3 == Step(s2, 3)
        s4 == Step(s3, 4)
        s5 == Step(s4, 5)
        s6 == Step(s5, 6)
        s7 == Step(s6, 7)
        s8 == Step(s7, 8)
        s9 == Step(s8, 9)
        s10 == Step(s9, 10)
        s11 == Step(s10, 11)
        s12 == Step(s11, 12)
        s13 == Step(s12, 13)
        s14 == Step(s13, 14)
        s15 == Step(s14, 15)
    IN  IF /\ {st} # {}
           /\ {s1} # {}
           /\ {s2} # {}
           /\ {s3} # {}
           /\ {s4} # {}
           /\ {s5} # {}
           /\ {s6} # {}
           /\ {s7} # {}
           /\ {s8} # {}
           /\ {s9} # {}
           /\ {s10} # {}
           /\ {s11} # {}
           /\ {s12} # {}
           /\ {s13} # {}
           /\ {s14} # {}
           /\ {s15} # {}
        THEN Step(s15, 16)
        ELSE st

\* The length of the ranges a loop of n > 16 passes is split into: a power
\* of 16 where one fits, so that the ranges split evenly in turn.
Stride(n) ==
    IF n <= 256 THEN 16
    ELSE IF n <= 4096 THEN 256
    ELSE IF n <= 65536 THEN 4096
    ELSE IF n <= 1048576 THEN 65536
    ELSE (n + 15) \div 16

\* The loop for (k = lo; k <= hi; k++) st = Body(st, k). The passes are
\* evaluated in order: sixteen passes at most, or else the sixteen
\* consecutive ranges of passes they split into.
RECURSIVE For(_, _, _, _)
For(Body(_, _), st, lo, hi) ==
    IF hi - lo < 16
    THEN LET Pass(x, j) == IF lo + j - 1 <= hi THEN Body(x, lo + j - 1) ELSE x
         IN  Sixteen(Pass, st)
    ELSE LET step == Stride(hi - lo + 1)
             Part(x, j) ==
                 IF lo + (j - 1) * step > hi THEN x
                 ELSE For(Body, x, lo + (j - 1) * step,
                          IF lo + j * step - 1 < hi THEN lo + j * step - 1 ELSE hi)
         IN  Sixteen(Part, st)

\* The conversion of an int to uint8_t, uint16_t.
U8(a) == a % 256
U16(a) == a % 65536

---------------------------------------------------------------------------
(* The input: the bytes of a disk image                                    *)

\* Byte off of disk image img.  Image 0 mixes all byte values, image 1 is
\* the all-zero disk, image 2 the all-0xFF disk; the others are further
\* mixed patterns.
DskByte(img, off) ==
    CASE img = 0 -> (off * 37 + (off \div 256) * 11 + (off \div 4096) * 5 + 1) % 256
      [] img = 1 -> 0
      [] img = 2 -> 255
      [] OTHER   -> (off * (2 * img + 1) + (off \div 256) * img + img) % 256

\* A pointer into a disk image: <<image, offset>>.
Deref(p, c) == DskByte(p[1], p[2] + c)
PtrAdd(p, n) == <<p[1], p[2] + n>>

---------------------------------------------------------------------------
(* Memory                                                                  *)

\* A block of memory is held as its pages, a page as its lines, a line as
\* its bytes: byte k of the block is byte k % LineSize of line
\* (k % PageSize) \div LineSize of page k \div PageSize. All pages but the
\* last are whole, and so are all the lines of a page but its last.
LineSize == Pow2(6)
PageSize == Pow2(12)

\* What a byte of a block holds until it is written: no value of a
\* uint8_t, so that nothing can be computed from it.
Indeterminate == 0 - 1

\* The number of units of length unit that hold n bytes.
Units(n, unit) == (n + unit - 1) \div unit

\* The number of bytes of a block.
Size(mem) ==
    IF mem = <<>> THEN 0
    ELSE LET page == mem[Len(mem)]
         IN  (Len(mem) - 1) * PageSize + (Len(page) - 1) * LineSize + Len(page[Len(page)])

\* mem[k]
Load(mem, k) == mem[(k \div PageSize) + 1][((k % PageSize) \div LineSize) + 1][(k % LineSize) + 1]

\* The bytes of page p, and of line l of page p, of a block of n bytes.
PageBytes(n, p) == IF p * PageSize <= n THEN PageSize ELSE n - (p - 1) * PageSize
LineBytes(n, p, l) ==
    IF l * LineSize <= PageBytes(n, p) THEN LineSize ELSE PageBytes(n, p) - (l - 1) * LineSize

\* The block of n bytes whose byte k is Get(k).
Build(n, Get(_)) ==
    [p \in 1..Units(n, PageSize) |->
        [l \in 1..Units(PageBytes(n, p), LineSize) |->
            [o \in 1..LineBytes(n, p, l) |->
                Get((p - 1) * PageSize + (l - 1) * LineSize + o - 1)] \o <<>>] \o <<>>] \o <<>>

\* n bytes of value v.
Fill(n, v) == Build(n, LAMBDA k : v)

\* mem after its n bytes from offset at on are set to Get(0), ..., Get(n - 1).
\* The pages and lines the bytes do not fall into stay as they are.
StoreWith(mem, at, n, Get(_)) ==
    LET old == Size(mem)
        size == IF at + n > old THEN at + n ELSE old
        Byte(k) == IF at <= k /\ k < at + n THEN Get(k - at)
                   ELSE IF k < old THEN Load(mem, k)
                   ELSE Indeterminate
        \* The bytes first .. first + length - 1 are kept as they are.
        Kept(first, length) ==
            /\ first + length <= old
            /\ first + length <= at \/ at + n <= first
    IN  [p \in 1..Units(size, PageSize) |->
            IF Kept((p - 1) * PageSize, PageSize) THEN mem[p]
            ELSE [l \in 1..Units(PageBytes(size, p), LineSize) |->
                     IF Kept((p - 1) * PageSize + (l - 1) * LineSize, LineSize) THEN mem[p][l]
                     ELSE [o \in 1..LineBytes(size, p, l) |->
                              Byte((p - 1) * PageSize + (l - 1) * LineSize + o - 1)]
                          \o <<>>] \o <<>>] \o <<>>

\* mem after bytes are stored from offset at on (an assignment, a memset).
Store(mem, at, bytes) == StoreWith(mem, at, Len(bytes), LAMBDA k : bytes[k + 1])

\* memcpy(&mem[at], &src[from], n)
Copy(mem, at, src, from, n) == StoreWith(mem, at, n, LAMBDA k : Load(src, from + k))

\* The first n bytes of mem.
Take(mem, n) == IF n = Size(mem) THEN mem ELSE Build(n, LAMBDA k : Load(mem, k))

\* mem[k] = Change(mem[k]).
Update(mem, k, Change(_)) ==
    [mem EXCEPT ![(k \div PageSize) + 1][((k % PageSize) \div LineSize) + 1][(k % LineSize) + 1] =
                    Change(@)]

---------------------------------------------------------------------------
(* encode_6_and_2                                                          *)

\* Element k of a C array held as a tuple.
At(array, k) == array[k + 1]

six_and_two_mapping ==
    << 150, 151, 154, 155, 157, 158, 159, 166,
       167, 171, 172, 173, 174, 175, 178, 179,
       180, 181, 182, 183, 185, 186, 187, 188,
       189, 190, 191, 203, 205, 206, 207, 211,
       214, 215, 217, 218, 219, 220, 221, 222,
       223, 229, 230, 231, 233, 234, 235, 236,
       237, 238, 239, 242, 243, 244, 245, 246,
       247, 249, 250, 251, 252, 253, 254, 255 >>

bit_reverse == <<0, 2, 1, 3>>

\* What a read past the end of six_and_two_mapping may return: the array is
\* on the stack, the byte read is whatever lies behind it.
OutOfBounds == {0, 255}

\* What an uninitialized uint8_t may hold.
Uninitialized == {0, 165}

\* The first 86 bytes: the bottom two bits of the sector contents.
LowBits(d, src) ==
    [c \in DOMAIN d |->
        IF c < 84 THEN
            BitOr(BitOr(At(bit_reverse, BitAnd(Deref(src, c), 3)),
                        ShiftLeft(At(bit_reverse, BitAnd(Deref(src, c + 86), 3)), 2)),
                  ShiftLeft(At(bit_reverse, BitAnd(Deref(src, c + 172), 3)), 4))
        ELSE IF c = 84 THEN
            BitOr(ShiftLeft(At(bit_reverse, BitAnd(Deref(src, 84), 3)), 0),
                  ShiftLeft(At(bit_reverse, BitAnd(Deref(src, 170), 3)), 2))
        ELSE IF c = 85 THEN
            BitOr(ShiftLeft(At(bit_reverse, BitAnd(Deref(src, 85), 3)), 0),
                  ShiftLeft(At(bit_reverse, BitAnd(Deref(src, 171), 3)), 2))
        ELSE d[c]]

\* Seven bits of source byte c: one bit too many for the table.
HighPartSeven(src, c) == ShiftRight(Deref(src, c), 1)

\* The six bits that remain of source byte c.
HighPart(src, c) == ShiftRight(Deref(src, c), 2)

\* The 256 bytes afterwards: the remaining six bits.
HighBits(d, src) ==
    [c \in DOMAIN d |->
        IF 86 <= c /\ c < 86 + 256 THEN HighPart(src, c - 86) ELSE d[c]]

\* dest[342] = dest[341]
DupLast(d) == [d EXCEPT ![342] = d[341]]

\* A loop that starts one byte later and so reaches dest[342] too.
XorStartLate == 342 + 1

\* The value location starts from in the XOR loop.
XorStart == 342

\* One iteration of the loop, location already decremented:
\* dest[location] ^= dest[location-1]
XorStep(d, location) ==
    [d EXCEPT ![location] = U8(BitXor(d[location], d[location - 1]))]

\* while (location > 1) { location--; dest[location] ^= dest[location-1]; }
\* The passes leave location at location - 1, location - 2, ..., 1.
XorChain(d, location) ==
    LET Body(st, k) == XorStep(st, location - k)
    IN  For(Body, d, 1, location - 1)

\* A mapping that sets the high bit and keeps the six bits as they are.
MapByteHighBit(v, oob) == 128 + v

\* six_and_two_mapping[v]; oob is what a read past the table returns.
MapByte(v, oob) == IF v < Len(six_and_two_mapping) THEN At(six_and_two_mapping, v) ELSE oob

\* Map six-bit values up to full bytes.
MapAll(d, oob) == [c \in DOMAIN d |-> MapByte(d[c], oob)]

\* A function on 0..n-1 as the record of its values (an evaluated array).
Array(f) == (0 :> f[0]) @@ f

\* The whole function: dest after encode_6_and_2(dest, src).
encode_6_and_2(d, src, oob) ==
    LET low == Array(LowBits(d, src))
        high == Array(HighBits(low, src))
        dup == DupLast(high)
        xor == XorChain(dup, XorStart)
    IN  IF /\ Evaluated(low)
           /\ Evaluated(high)
           /\ Evaluated(dup)
           /\ Evaluated(xor)
        THEN Array(MapAll(xor, oob))
        ELSE d

\* ---- SpecSector: encode_6_and_2 step by step

\* The sectors encoded: the first and last sector of the first and last track.
SectorInputs ==
    { <<img, tr * BYTES_PER_TRACK + l * BYTES_PER_SECTOR>> :
        img \in 0..MaxImage, tr \in {0, TRACKS_PER_DISK - 1}, l \in {0, SECTORS_PER_TRACK - 1} }

EsIdle ==
    /\ es_pc = "idle" /\ es_src = <<0, 0>> /\ es_dest = <<>> /\ es_location = 0

TkIdle ==
    /\ tk_pc = "idle" /\ tk_image = 0 /\ track_number = 0 /\ sector_format = 0
    /\ dest = <<>> /\ bit_index = 0 /\ s = 0 /\ i = 0 /\ logical_sector = 0
    /\ encoded_contents = <<>>

TmIdle ==
    /\ tm_pc = "idle" /\ tm_chunk = NULL /\ tm_t = 0 /\ byte_index = 0

MainIdle ==
    /\ pc = "idle" /\ argc = 0 /\ argv1 = <<>> /\ image = 0 /\ fmt = 0 /\ t = 0
    /\ track_data = <<>> /\ valid_bits_per_track = 0
    /\ info_chunk = NULL /\ tmap_chunk = NULL /\ trks_chunk = NULL /\ writ_chunk = NULL
    /\ woz = <<>> /\ woz_image_size = 0 /\ output_index = 0 /\ crc = 0
    /\ out_file = <<>> /\ stdout = "" /\ ret = 0

InitSector ==
    /\ es_pc = "low"
    /\ es_src \in SectorInputs
    /\ \E u \in Uninitialized :
           es_dest = Array([c \in 0..(BITS_SECTOR_CONTENTS_SIZE - 1) |-> u])
    /\ es_location = 0
    /\ TkIdle /\ TmIdle /\ MainIdle

\* What an action of encode_6_and_2 leaves alone.
EsFrame == UNCHANGED <<tk_vars, tm_vars, main_vars>>

EsLowBits ==
    /\ es_pc = "low"
    /\ es_dest' = Array(LowBits(es_dest, es_src))
    /\ es_pc' = "high"
    /\ UNCHANGED <<es_src, es_location>>
    /\ EsFrame

EsHighBits ==
    /\ es_pc = "high"
    /\ es_dest' = Array(HighBits(es_dest, es_src))
    /\ es_pc' = "dup"
    /\ UNCHANGED <<es_src, es_location>>
    /\ EsFrame

EsDupLast ==
    /\ es_pc = "dup"
    /\ es_dest' = DupLast(es_dest)
    /\ es_location' = XorStart
    /\ es_pc' = "xor"
    /\ UNCHANGED es_src
    /\ EsFrame

EsXorStep ==
    /\ es_pc = "xor"
    /\ es_location > 1
    /\ es_location' = es_location - 1
    /\ es_dest' = XorStep(es_dest, es_location - 1)
    /\ UNCHANGED <<es_pc, es_src>>
    /\ EsFrame

EsXorDone ==
    /\ es_pc = "xor"
    /\ ~(es_location > 1)
    /\ es_pc' = "map"
    /\ UNCHANGED <<es_src, es_dest, es_location>>
    /\ EsFrame

EsMap ==
    /\ es_pc = "map"
    /\ \E oob \in OutOfBounds : es_dest' = Array(MapAll(es_dest, oob))
    /\ es_pc' = "done"
    /\ UNCHANGED <<es_src, es_location>>
    /\ EsFrame

NextSector ==
    \/ EsLowBits
    \/ EsHighBits
    \/ EsDupLast
    \/ EsXorStep
    \/ EsXorDone
    \/ EsMap

SpecSector == InitSector /\ [][NextSector]_vars

---------------------------------------------------------------------------
(* The bit writer                                                          *)

\* buffer[position] |= value, as a uint8_t; a write past the end of the
\* buffer does not land in it.
OrInto(buffer, position, value) ==
    IF position < Size(buffer)
    THEN Update(buffer, position, LAMBDA byte : ByteOr(byte, U8(value)))
    ELSE buffer

\* A writer that does not shift the value into place in the first byte.
bits_write_byte_unshifted(buffer, index, value) ==
    LET shift == BitAnd(index, 7)
        byte_position == ShiftRight(index, 3)
        b1 == OrInto(buffer, byte_position, value)
        b2 == IF shift # 0
              THEN OrInto(b1, byte_position + 1, ShiftLeft(value, 8 - shift))
              ELSE b1
    IN  [buffer |-> b2, index |-> index + 8]

\* bits_write_byte(buffer, index, value): the buffer afterwards and the
\* index returned.
bits_write_byte(buffer, index, value) ==
    LET shift == BitAnd(index, 7)
        byte_position == ShiftRight(index, 3)
        b1 == OrInto(buffer, byte_position, ShiftRight(value, shift))
        b2 == IF shift # 0
              THEN OrInto(b1, byte_position + 1, ShiftLeft(value, 8 - shift))
              ELSE b1
    IN  [buffer |-> b2, index |-> index + 8]

\* The two bytes of a 4-and-4 in the other order.
FourAndFourSwapped(value) == << BitOr(value, 170), BitOr(ShiftRight(value, 1), 170) >>

\* The two bytes bits_write_4_and_4 hands to bits_write_byte for value.
FourAndFour(value) == << BitOr(ShiftRight(value, 1), 170), BitOr(value, 170) >>

\* Writes a byte in 4-and-4.
bits_write_4_and_4(buffer, index, value) ==
    LET w1 == bits_write_byte(buffer, index, FourAndFour(value)[1])
    IN  bits_write_byte(w1.buffer, w1.index, FourAndFour(value)[2])

\* A sync word written without the two bits skipped.
bits_write_sync_short(buffer, index) == bits_write_byte(buffer, index, 255)

\* Writes a 6-and-2 sync word: 0xFF, then two bits skipped.
bits_write_sync(buffer, index) ==
    LET w1 == bits_write_byte(buffer, index, 255)
    IN  [buffer |-> w1.buffer, index |-> w1.index + 2]

\* bits_write_byte called on bytes[lo], ..., bytes[hi] in turn.
WriteBytes(w, bytes, lo, hi) ==
    LET Body(st, k) == bits_write_byte(st.buffer, st.index, bytes[k])
    IN  After(bytes, For(Body, w, lo, hi))

\* for (int i = 0; i < n; i++) bit_index = bits_write_sync(dest, bit_index);
WriteSyncs(w, n) ==
    LET Body(st, k) == bits_write_sync(st.buffer, st.index)
    IN  For(Body, w, 0, n - 1)

---------------------------------------------------------------------------
(* encode_bits_for_track                                                   *)

\* memset(dest, 0, BITS_TRACK_SIZE)
ZeroTrack == Fill(BITS_TRACK_SIZE, 0)

\* The sync words between the address field and the data field, and
\* between two sectors.
GAP_SYNC_COUNT == 7
SECTOR_SYNC_COUNT == 16

\* An interleave whose DOS 3.3 multiplier shares a factor with 15.
MultiplierFive(format) == IF format = dsk_sector_format_prodos THEN 8 ELSE 5

\* The multiplier of the interleave.
Multiplier(format) == IF format = dsk_sector_format_prodos THEN 8 ELSE 7

\* Which logical sector goes into physical sector sec.
LogicalSector(sec, format) ==
    IF sec = 15 THEN 15 ELSE (sec * Multiplier(format)) % 15

\* The sector header: prologue, volume, track, sector and checksum in
\* 4-and-4, epilogue; the bytes handed to bits_write_byte, in order.
AddressField(track, sec) ==
    <<213, 170, 150>>
        \o FourAndFour(DOS_VOLUME_NUMBER)
        \o FourAndFour(track)
        \o FourAndFour(sec)
        \o FourAndFour(BitXor(BitXor(DOS_VOLUME_NUMBER, track), sec))
        \o <<222, 170, 235>>

DataPrologue == <<213, 170, 173>>
DataEpilogue == <<222, 170, 235>>

\* The writer state w with encoded_contents as given.
WithContents(w, contents) ==
    [buffer |-> w.buffer, index |-> w.index, contents |-> contents]

\* The address field, the sync words of the gap and the prologue of the
\* data field, from writer state w.
SectorHeader(w, track, sec) ==
    After(w, WriteBytes(WriteSyncs(WriteBytes(w, AddressField(track, sec), 1, 14),
                                   GAP_SYNC_COUNT),
                        DataPrologue, 1, 3))

\* The encoded contents and the epilogue of the data field.
SectorBody(w, contents) ==
    After(w, After(contents,
        WithContents(WriteBytes(WriteBytes(w, contents, 0, BITS_SECTOR_CONTENTS_SIZE - 1),
                                DataEpilogue, 1, 3),
                     contents)))

\* The sync words after a sector, or the 0xFF that concludes the track.
SectorEnd(w, sec) ==
    After(w, WithContents(IF sec < SECTORS_PER_TRACK - 1
                          THEN WriteSyncs(w, SECTOR_SYNC_COUNT)
                          ELSE bits_write_byte(w.buffer, w.index, 255),
                          w.contents))

\* One pass of the loop over the physical sectors, from writer state w.
\* src points to the track's 16 sectors; stack is encoded_contents before.
EncodeSector(w, src, track, sec, format, stack, oob) ==
    SectorEnd(SectorBody(SectorHeader(w, track, sec),
                         encode_6_and_2(stack,
                                        PtrAdd(src, LogicalSector(sec, format) * BYTES_PER_SECTOR),
                                        oob)),
              sec)

\* An encoder whose leader is one sync word shorter for a ProDOS image.
encode_bits_for_track_leader(src, track, format, stack, oob) ==
    LET w0 == [buffer |-> ZeroTrack, index |-> 0, contents |-> stack]
        Leader(st, k) ==
            LET w == bits_write_sync(st.buffer, st.index)
            IN  [buffer |-> w.buffer, index |-> w.index, contents |-> st.contents]
        leader == For(Leader, w0, 0, TRACK_LEADER_SYNC_COUNT - format - 1)
        Sector(st, sec) == EncodeSector(st, src, track, sec, format, st.contents, oob)
    IN  For(Sector, leader, 0, SECTORS_PER_TRACK - 1)

\* encode_bits_for_track(dest, src, track_number, sector_format): dest
\* afterwards (buffer) and the value returned (index).
encode_bits_for_track(src, track, format, stack, oob) ==
    LET w0 == [buffer |-> ZeroTrack, index |-> 0, contents |-> stack]
        Leader(st, k) ==
            LET w == bits_write_sync(st.buffer, st.index)
            IN  [buffer |-> w.buffer, index |-> w.index, contents |-> st.contents]
        leader == For(Leader, w0, 0, TRACK_LEADER_SYNC_COUNT - 1)
        Sector(st, sec) == EncodeSector(st, src, track, sec, format, st.contents, oob)
    IN  For(Sector, leader, 0, SECTORS_PER_TRACK - 1)

\* An uninitialized encoded_contents.
UninitializedContents(u) == Array([c \in 0..(BITS_SECTOR_CONTENTS_SIZE - 1) |-> u])

\* ---- SpecTrack: encode_bits_for_track, one action per bit-writer call

\* The tracks encoded: the first and the last.
TrackInputs == {0, TRACKS_PER_DISK - 1}

SectorFormats == {dsk_sector_format_dos_3_3, dsk_sector_format_prodos}

\* uint8_t * src, as main passes it: &dsk[t * BYTES_PER_TRACK]
TrackSrc(img, track) == <<img, track * BYTES_PER_TRACK>>

InitTrack ==
    /\ tk_pc = "memset"
    /\ tk_image \in 0..MaxTrackImage
    /\ track_number \in TrackInputs
    /\ sector_format \in SectorFormats
    /\ \E u \in Uninitialized :
          /\ dest = Fill(BITS_TRACK_SIZE, u)
          /\ encoded_contents = UninitializedContents(u)
    /\ bit_index = 0 /\ s = 0 /\ i = 0 /\ logical_sector = 0
    /\ EsIdle /\ TmIdle /\ MainIdle

\* What an action of encode_bits_for_track leaves alone.
TkFrame == UNCHANGED <<es_vars, tm_vars, main_vars, tk_image, track_number, sector_format>>

\* The loop counter after one more pass of a loop of limit passes, and
\* where control is then.
Advance(limit, after) ==
    /\ i' = IF i + 1 < limit THEN i + 1 ELSE 0
    /\ tk_pc' = IF i + 1 < limit THEN tk_pc ELSE after

\* dest and bit_index after a call of the bit writer that returned w.
Written(w) == \E r \in {w} : dest' = r.buffer /\ bit_index' = r.index

TkMemset ==
    /\ tk_pc = "memset"
    /\ dest' = ZeroTrack
    /\ tk_pc' = "leader"
    /\ UNCHANGED <<bit_index, s, i, logical_sector, encoded_contents>>
    /\ TkFrame

TkLeaderSync ==
    /\ tk_pc = "leader"
    /\ i < TRACK_LEADER_SYNC_COUNT
    /\ Written(bits_write_sync(dest, bit_index))
    /\ Advance(TRACK_LEADER_SYNC_COUNT, "addr")
    /\ UNCHANGED <<s, logical_sector, encoded_contents>>
    /\ TkFrame

TkAddressByte ==
    /\ tk_pc = "addr"
    /\ Written(bits_write_byte(dest, bit_index, At(AddressField(track_number, s), i)))
    /\ Advance(Len(AddressField(track_number, s)), "gap")
    /\ UNCHANGED <<s, logical_sector, encoded_contents>>
    /\ TkFrame

TkGapSync ==
    /\ tk_pc = "gap"
    /\ i < GAP_SYNC_COUNT
    /\ Written(bits_write_sync(dest, bit_index))
    /\ Advance(GAP_SYNC_COUNT, "dprologue")
    /\ UNCHANGED <<s, logical_sector, encoded_contents>>
    /\ TkFrame

TkDataPrologueByte ==
    /\ tk_pc = "dprologue"
    /\ Written(bits_write_byte(dest, bit_index, At(DataPrologue, i)))
    /\ Advance(Len(DataPrologue), "pick")
    /\ UNCHANGED <<s, logical_sector, encoded_contents>>
    /\ TkFrame

TkEncodeContents ==
    /\ tk_pc = "pick"
    /\ logical_sector' = LogicalSector(s, sector_format)
    /\ \E oob \in OutOfBounds :
          encoded_contents' =
              encode_6_and_2(encoded_contents,
                             PtrAdd(TrackSrc(tk_image, track_number),
                                    logical_sector' * BYTES_PER_SECTOR), oob)
    /\ tk_pc' = "data"
    /\ UNCHANGED <<dest, bit_index, s, i>>
    /\ TkFrame

TkDataByte ==
    /\ tk_pc = "data"
    /\ i < BITS_SECTOR_CONTENTS_SIZE
    /\ Written(bits_write_byte(dest, bit_index, encoded_contents[i]))
    /\ Advance(BITS_SECTOR_CONTENTS_SIZE, "depilogue")
    /\ UNCHANGED <<s, logical_sector, encoded_contents>>
    /\ TkFrame

TkDataEpilogueByte ==
    /\ tk_pc = "depilogue"
    /\ Written(bits_write_byte(dest, bit_index, At(DataEpilogue, i)))
    /\ Advance(Len(DataEpilogue), "tail")
    /\ UNCHANGED <<s, logical_sector, encoded_contents>>
    /\ TkFrame

TkSectorSync ==
    /\ tk_pc = "tail"
    /\ s < SECTORS_PER_TRACK - 1
    /\ i < SECTOR_SYNC_COUNT
    /\ Written(bits_write_sync(dest, bit_index))
    /\ Advance(SECTOR_SYNC_COUNT, "next")
    /\ UNCHANGED <<s, logical_sector, encoded_contents>>
    /\ TkFrame

TkLastByte ==
    /\ tk_pc = "tail"
    /\ ~(s < SECTORS_PER_TRACK - 1)
    /\ Written(bits_write_byte(dest, bit_index, 255))
    /\ tk_pc' = "next"
    /\ UNCHANGED <<s, i, logical_sector, encoded_contents>>
    /\ TkFrame

TkNextSector ==
    /\ tk_pc = "next"
    /\ s' = s + 1
    /\ tk_pc' = IF s + 1 < SECTORS_PER_TRACK THEN "addr" ELSE "ret"
    /\ UNCHANGED <<dest, bit_index, i, logical_sector, encoded_contents>>
    /\ TkFrame

NextTrack ==
    \/ TkMemset
    \/ TkLeaderSync
    \/ TkAddressByte
    \/ TkGapSync
    \/ TkDataPrologueByte
    \/ TkEncodeContents
    \/ TkDataByte
    \/ TkDataEpilogueByte
    \/ TkSectorSync
    \/ TkLastByte
    \/ TkNextSector

SpecTrack == InitTrack /\ [][NextTrack]_vars

\* The two ways of running the function agree: dest and bit_index at the
\* return are those of encode_bits_for_track.
TrackStepsAgree ==
    tk_pc = "ret" =>
        LET w == encode_bits_for_track(TrackSrc(tk_image, track_number), track_number,
                                       sector_format, UninitializedContents(0), 0)
        IN  w.buffer = dest /\ w.index = bit_index

---------------------------------------------------------------------------
(* Memory, and the writers of integers                                     *)

\* A uint32_t is held as its four bytes, the least significant first: the
\* (uint32_t) of a non-negative int.
Word32(n) == << n % 256, (n \div 256) % 256, (n \div 65536) % 256, (n \div 16777216) % 256 >>

\* (value >> (8 * k)) & 0xFF of a uint32_t.
ByteOf(value, k) == value[k + 1]

WordXor(a, b) ==
    << ByteXor(a[1], b[1]), ByteXor(a[2], b[2]), ByteXor(a[3], b[3]), ByteXor(a[4], b[4]) >>

write_uint8(mem, at, value) == Store(mem, at, << U8(value) >>)

write_uint16(mem, at, value) ==
    Store(mem, at, << BitAnd(value, 255), BitAnd(ShiftRight(value, 8), 255) >>)

write_uint32(mem, at, value) ==
    Store(mem, at, << ByteOf(value, 0), ByteOf(value, 1), ByteOf(value, 2), ByteOf(value, 3) >>)

write_uint32_be(mem, at, value) ==
    Store(mem, at, << ByteOf(value, 3), ByteOf(value, 2), ByteOf(value, 1), ByteOf(value, 0) >>)

\* write_utf8(dest, utf8string, n): the string truncated or padded with
\* spaces to n characters.
write_utf8(mem, at, utf8string, n) ==
    LET l == Len(utf8string)
    IN  Store(mem, at, [k \in 1..n |-> IF k - 1 < l THEN utf8string[k] ELSE 32] \o <<>>)

---------------------------------------------------------------------------
(* crc32                                                                   *)

\* crc32_tab, each entry as the four bytes of the uint32_t, the least
\* significant first (0x77073096 is <<150, 48, 7, 119>>).
crc32_tab ==
    <<
       <<0, 0, 0, 0>>, <<150, 48, 7, 119>>, <<44, 97, 14, 238>>, <<186, 81, 9, 153>>,
       <<25, 196, 109, 7>>, <<143, 244, 106, 112>>, <<53, 165, 99, 233>>, <<163, 149, 100, 158>>,
       <<50, 136, 219, 14>>, <<164, 184, 220, 121>>, <<30, 233, 213, 224>>, <<136, 217, 210, 151>>,
       <<43, 76, 182, 9>>, <<189, 124, 177, 126>>, <<7, 45, 184, 231>>, <<145, 29, 191, 144>>,
       <<100, 16, 183, 29>>, <<242, 32, 176, 106>>, <<72, 113, 185, 243>>, <<222, 65, 190, 132>>,
       <<125, 212, 218, 26>>, <<235, 228, 221, 109>>, <<81, 181, 212, 244>>, <<199, 133, 211, 131>>,
       <<86, 152, 108, 19>>, <<192, 168, 107, 100>>, <<122, 249, 98, 253>>, <<236, 201, 101, 138>>,
       <<79, 92, 1, 20>>, <<217, 108, 6, 99>>, <<99, 61, 15, 250>>, <<245, 13, 8, 141>>,
       <<200, 32, 110, 59>>, <<94, 16, 105, 76>>, <<228, 65, 96, 213>>, <<114, 113, 103, 162>>,
       <<209, 228, 3, 60>>, <<71, 212, 4, 75>>, <<253, 133, 13, 210>>, <<107, 181, 10, 165>>,
       <<250, 168, 181, 53>>, <<108, 152, 178, 66>>, <<214, 201, 187, 219>>, <<64, 249, 188, 172>>,
       <<227, 108, 216, 50>>, <<117, 92, 223, 69>>, <<207, 13, 214, 220>>, <<89, 61, 209, 171>>,
       <<172, 48, 217, 38>>, <<58, 0, 222, 81>>, <<128, 81, 215, 200>>, <<22, 97, 208, 191>>,
       <<181, 244, 180, 33>>, <<35, 196, 179, 86>>, <<153, 149, 186, 207>>, <<15, 165, 189, 184>>,
       <<158, 184, 2, 40>>, <<8, 136, 5, 95>>, <<178, 217, 12, 198>>, <<36, 233, 11, 177>>,
       <<135, 124, 111, 47>>, <<17, 76, 104, 88>>, <<171, 29, 97, 193>>, <<61, 45, 102, 182>>,
       <<144, 65, 220, 118>>, <<6, 113, 219, 1>>, <<188, 32, 210, 152>>, <<42, 16, 213, 239>>,
       <<137, 133, 177, 113>>, <<31, 181, 182, 6>>, <<165, 228, 191, 159>>, <<51, 212, 184, 232>>,
       <<162, 201, 7, 120>>, <<52, 249, 0, 15>>, <<142, 168, 9, 150>>, <<24, 152, 14, 225>>,
       <<187, 13, 106, 127>>, <<45, 61, 109, 8>>, <<151, 108, 100, 145>>, <<1, 92, 99, 230>>,
       <<244, 81, 107, 107>>, <<98, 97, 108, 28>>, <<216, 48, 101, 133>>, <<78, 0, 98, 242>>,
       <<237, 149, 6, 108>>, <<123, 165, 1, 27>>, <<193, 244, 8, 130>>, <<87, 196, 15, 245>>,
       <<198, 217, 176, 101>>, <<80, 233, 183, 18>>, <<234, 184, 190, 139>>, <<124, 136, 185, 252>>,
       <<223, 29, 221, 98>>, <<73, 45, 218, 21>>, <<243, 124, 211, 140>>, <<101, 76, 212, 251>>,
       <<88, 97, 178, 77>>, <<206, 81, 181, 58>>, <<116, 0, 188, 163>>, <<226, 48, 187, 212>>,
       <<65, 165, 223, 74>>, <<215, 149, 216, 61>>, <<109, 196, 209, 164>>, <<251, 244, 214, 211>>,
       <<106, 233, 105, 67>>, <<252, 217, 110, 52>>, <<70, 136, 103, 173>>, <<208, 184, 96, 218>>,
       <<115, 45, 4, 68>>, <<229, 29, 3, 51>>, <<95, 76, 10, 170>>, <<201, 124, 13, 221>>,
       <<60, 113, 5, 80>>, <<170, 65, 2, 39>>, <<16, 16, 11, 190>>, <<134, 32, 12, 201>>,
       <<37, 181, 104, 87>>, <<179, 133, 111, 32>>, <<9, 212, 102, 185>>, <<159, 228, 97, 206>>,
       <<14, 249, 222, 94>>, <<152, 201, 217, 41>>, <<34, 152, 208, 176>>, <<180, 168, 215, 199>>,
       <<23, 61, 179, 89>>, <<129, 13, 180, 46>>, <<59, 92, 189, 183>>, <<173, 108, 186, 192>>,
       <<32, 131, 184, 237>>, <<182, 179, 191, 154>>, <<12, 226, 182, 3>>, <<154, 210, 177, 116>>,
       <<57, 71, 213, 234>>, <<175, 119, 210, 157>>, <<21, 38, 219, 4>>, <<131, 22, 220, 115>>,
       <<18, 11, 99, 227>>, <<132, 59, 100, 148>>, <<62, 106, 109, 13>>, <<168, 90, 106, 122>>,
       <<11, 207, 14, 228>>, <<157, 255, 9, 147>>, <<39, 174, 0, 10>>, <<177, 158, 7, 125>>,
       <<68, 147, 15, 240>>, <<210, 163, 8, 135>>, <<104, 242, 1, 30>>, <<254, 194, 6, 105>>,
       <<93, 87, 98, 247>>, <<203, 103, 101, 128>>, <<113, 54, 108, 25>>, <<231, 6, 107, 110>>,
       <<118, 27, 212, 254>>, <<224, 43, 211, 137>>, <<90, 122, 218, 16>>, <<204, 74, 221, 103>>,
       <<111, 223, 185, 249>>, <<249, 239, 190, 142>>, <<67, 190, 183, 23>>, <<213, 142, 176, 96>>,
       <<232, 163, 214, 214>>, <<126, 147, 209, 161>>, <<196, 194, 216, 56>>, <<82, 242, 223, 79>>,
       <<241, 103, 187, 209>>, <<103, 87, 188, 166>>, <<221, 6, 181, 63>>, <<75, 54, 178, 72>>,
       <<218, 43, 13, 216>>, <<76, 27, 10, 175>>, <<246, 74, 3, 54>>, <<96, 122, 4, 65>>,
       <<195, 239, 96, 223>>, <<85, 223, 103, 168>>, <<239, 142, 110, 49>>, <<121, 190, 105, 70>>,
       <<140, 179, 97, 203>>, <<26, 131, 102, 188>>, <<160, 210, 111, 37>>, <<54, 226, 104, 82>>,
       <<149, 119, 12, 204>>, <<3, 71, 11, 187>>, <<185, 22, 2, 34>>, <<47, 38, 5, 85>>,
       <<190, 59, 186, 197>>, <<40, 11, 189, 178>>, <<146, 90, 180, 43>>, <<4, 106, 179, 92>>,
       <<167, 255, 215, 194>>, <<49, 207, 208, 181>>, <<139, 158, 217, 44>>, <<29, 174, 222, 91>>,
       <<176, 194, 100, 155>>, <<38, 242, 99, 236>>, <<156, 163, 106, 117>>, <<10, 147, 109, 2>>,
       <<169, 6, 9, 156>>, <<63, 54, 14, 235>>, <<133, 103, 7, 114>>, <<19, 87, 0, 5>>,
       <<130, 74, 191, 149>>, <<20, 122, 184, 226>>, <<174, 43, 177, 123>>, <<56, 27, 182, 12>>,
       <<155, 142, 210, 146>>, <<13, 190, 213, 229>>, <<183, 239, 220, 124>>, <<33, 223, 219, 11>>,
       <<212, 210, 211, 134>>, <<66, 226, 212, 241>>, <<248, 179, 221, 104>>, <<110, 131, 218, 31>>,
       <<205, 22, 190, 129>>, <<91, 38, 185, 246>>, <<225, 119, 176, 111>>, <<119, 71, 183, 24>>,
       <<230, 90, 8, 136>>, <<112, 106, 15, 255>>, <<202, 59, 6, 102>>, <<92, 11, 1, 17>>,
       <<255, 158, 101, 143>>, <<105, 174, 98, 248>>, <<211, 255, 107, 97>>, <<69, 207, 108, 22>>,
       <<120, 226, 10, 160>>, <<238, 210, 13, 215>>, <<84, 131, 4, 78>>, <<194, 179, 3, 57>>,
       <<97, 38, 103, 167>>, <<247, 22, 96, 208>>, <<77, 71, 105, 73>>, <<219, 119, 110, 62>>,
       <<74, 106, 209, 174>>, <<220, 90, 214, 217>>, <<102, 11, 223, 64>>, <<240, 59, 216, 55>>,
       <<83, 174, 188, 169>>, <<197, 158, 187, 222>>, <<127, 207, 178, 71>>, <<233, 255, 181, 48>>,
       <<28, 242, 189, 189>>, <<138, 194, 186, 202>>, <<48, 147, 179, 83>>, <<166, 163, 180, 36>>,
       <<5, 54, 208, 186>>, <<147, 6, 215, 205>>, <<41, 87, 222, 84>>, <<191, 103, 217, 35>>,
       <<46, 122, 102, 179>>, <<184, 74, 97, 196>>, <<2, 27, 104, 93>>, <<148, 43, 111, 42>>,
       <<55, 190, 11, 180>>, <<161, 142, 12, 195>>, <<27, 223, 5, 90>>, <<141, 239, 2, 45>>
    >>

ALL_ONES == <<255, 255, 255, 255>>
ZERO32 == <<0, 0, 0, 0>>

\* crc = crc32_tab[(crc ^ *p++) & 0xFF] ^ (crc >> 8)
\* The table index is the low byte of crc ^ byte; of crc >> 8 the top byte
\* is zero, and entry[3] ^ 0 is entry[3].
Crc32Step(c, byte) ==
    LET entry == At(crc32_tab, ByteAnd(ByteXor(c[1], byte), 255))
    IN  << ByteXor(entry[1], c[2]), ByteXor(entry[2], c[3]), ByteXor(entry[3], c[4]),
           entry[4] >>

\* A CRC whose accumulator is not inverted at the end.
crc32_unfinished(c, mem, at, size) ==
    LET Body(acc, k) == Crc32Step(acc, Load(mem, k))
    IN  For(Body, WordXor(c, ALL_ONES), at, at + size - 1)

\* crc32(crc, buf, size), buf being the size bytes of mem from offset at.
crc32(c, mem, at, size) ==
    LET Body(acc, k) == Crc32Step(acc, Load(mem, k))
    IN  WordXor(For(Body, WordXor(c, ALL_ONES), at, at + size - 1), ALL_ONES)

---------------------------------------------------------------------------
(* Chunks: creation and writing                                            *)

\* A multi-character constant such as 'INFO': the first character is the
\* most significant byte of the uint32_t.
FourCC(a, b, c, d) == << d, c, b, a >>

INFO == FourCC(73, 78, 70, 79)
TMAP == FourCC(84, 77, 65, 80)
TRKS == FourCC(84, 82, 75, 83)
WRIT == FourCC(87, 82, 73, 84)
WOZ2 == FourCC(87, 79, 90, 50)

\* "dsk2woz2"
CREATOR_NAME == << 100, 115, 107, 50, 119, 111, 122, 50 >>

\* create_chunk(name, data_length); calloc gives the zeroed block when
\* allocated holds, and NULL otherwise.
create_chunk(name, data_length, allocated) ==
    IF allocated
    THEN [name |-> name, data_length |-> data_length, data |-> Fill(data_length, 0)]
    ELSE NULL

\* chunk with its data replaced.
WithData(chunk, data) == [chunk EXCEPT !.data = data]

INFO_DATA_LENGTH == 60

create_info_chunk(allocated) ==
    LET chunk == create_chunk(INFO, INFO_DATA_LENGTH, allocated)
        d1 == write_uint8(chunk.data, 0, 2)
        d2 == write_uint8(d1, 1, 1)
        d3 == write_uint8(d2, 2, 0)
        d4 == write_uint8(d3, 3, 0)
        d5 == write_uint8(d4, 4, 1)
        d6 == write_utf8(d5, 5, CREATOR_NAME, 32)
        d7 == write_uint8(d6, 37, 1)
        d8 == write_uint8(d7, 38, 1)
        d9 == write_uint8(d8, 39, 32)
        d10 == write_uint16(d9, 40, 0)
        d11 == write_uint16(d10, 42, 0)
        d12 == write_uint16(d11, 44, BITS_BLOCKS_PER_TRACK)
    IN  IF chunk = NULL THEN NULL
        ELSE IF /\ Evaluated(d1) /\ Evaluated(d2) /\ Evaluated(d3) /\ Evaluated(d4)
                /\ Evaluated(d5) /\ Evaluated(d6) /\ Evaluated(d7) /\ Evaluated(d8)
                /\ Evaluated(d9) /\ Evaluated(d10) /\ Evaluated(d11)
             THEN WithData(chunk, d12)
             ELSE chunk

TMAP_DATA_LENGTH == 160

\* A loop that is not cut off one quarter track early.
TmapInRangeWhole(q) == q < TRACKS_PER_DISK * 4

\* if (t < (TRACKS_PER_DISK * 4) - 1)
TmapInRange(q) == q < (TRACKS_PER_DISK * 4) - 1

\* int nominal_track = t / 4
NominalTrack(q) == q \div 4

\* The value the loop of create_tmap_chunk writes for quarter-track q.
TmapEntry(q) ==
    IF TmapInRange(q)
    THEN CASE q % 4 \in {0, 1} -> NominalTrack(q)
           [] q % 4 = 2 -> 255
           [] q % 4 = 3 -> NominalTrack(q) + 1
    ELSE 255

create_tmap_chunk(allocated) ==
    LET chunk == create_chunk(TMAP, TMAP_DATA_LENGTH, allocated)
        Body(st, q) == [data |-> write_uint8(st.data, st.byte_index, TmapEntry(q)),
                        byte_index |-> st.byte_index + 1]
    IN  IF chunk = NULL THEN NULL
        ELSE WithData(chunk, For(Body, [data |-> chunk.data, byte_index |-> 0],
                                 0, TMAP_DATA_LENGTH - 1).data)

TRK_TABLE_SIZE == 160 * 8
BITS_OFFSET == 1280

\* A directory whose first track is one block late.
FIRST_STARTING_BLOCK_LATE == 3 + 1

\* uint16_t starting_block = 3
FIRST_STARTING_BLOCK == 3

\* create_trks_chunk(track_data, valid_bits_per_track)
create_trks_chunk(tracks, valid_bits, allocated) ==
    LET chunk == create_chunk(TRKS, TRK_TABLE_SIZE + (TRACKS_PER_DISK * BITS_TRACK_SIZE),
                              allocated)
        Body(st, k) ==
            LET d1 == write_uint16(st.data, st.byte_index, st.starting_block)
                d2 == write_uint16(d1, st.byte_index + 2, BITS_BLOCKS_PER_TRACK)
                d3 == write_uint32(d2, st.byte_index + 4, Word32(valid_bits))
            IN  IF Evaluated(d1) /\ Evaluated(d2)
                THEN [data |-> d3, byte_index |-> st.byte_index + 8,
                      starting_block |-> U16(st.starting_block + BITS_BLOCKS_PER_TRACK)]
                ELSE st
        table == For(Body, [data |-> chunk.data, byte_index |-> 0,
                            starting_block |-> FIRST_STARTING_BLOCK],
                     0, TRACKS_PER_DISK - 1)
    IN  IF chunk = NULL THEN NULL
        ELSE WithData(chunk, Copy(table.data, BITS_OFFSET, tracks, 0,
                                  TRACKS_PER_DISK * BITS_TRACK_SIZE))

WRIT_ENTRY_SIZE == 20

\* create_writ_chunk(track_data, valid_bits_per_track)
create_writ_chunk(tracks, valid_bits, allocated) ==
    LET chunk == create_chunk(WRIT, TRACKS_PER_DISK * WRIT_ENTRY_SIZE, allocated)
        length_for_crc == (valid_bits + 7) \div 8
        track_leader_sync_bits == TRACK_LEADER_SYNC_COUNT * 10
        Body(st, k) ==
            LET b == st.byte_index
                d1 == write_uint8(st.data, b, k * 4)
                d2 == write_uint8(d1, b + 1, 1)
                d3 == write_uint8(d2, b + 2, 0)
                track_crc == crc32(ZERO32, tracks, k * BITS_TRACK_SIZE, length_for_crc)
                d4 == write_uint32(d3, b + 4, track_crc)
                d5 == write_uint32(d4, b + 8, Word32(track_leader_sync_bits))
                d6 == write_uint32(d5, b + 12, Word32(valid_bits - track_leader_sync_bits))
                d7 == write_uint8(d6, b + 16, 255)
                d8 == write_uint8(d7, b + 17, 10)
                d9 == write_uint8(d8, b + 18, 0)
            IN  IF /\ Evaluated(d1) /\ Evaluated(d2) /\ Evaluated(d3)
                   /\ Evaluated(track_crc)
                   /\ Evaluated(d4) /\ Evaluated(d5) /\ Evaluated(d6) /\ Evaluated(d7)
                   /\ Evaluated(d8)
                THEN [data |-> d9, byte_index |-> b + WRIT_ENTRY_SIZE]
                ELSE st
    IN  IF chunk = NULL THEN NULL
        ELSE WithData(chunk, For(Body, [data |-> chunk.data, byte_index |-> 0],
                                 0, TRACKS_PER_DISK - 1).data)

\* A chunk counted without its length field.
total_chunk_size_short(chunk) == 4 + chunk.data_length

total_chunk_size(chunk) == 4 + 4 + chunk.data_length

\* write_chunk(dest, chunk), dest being mem from offset at on: mem
\* afterwards and the value returned.
write_chunk(mem, at, chunk) ==
    LET m1 == write_uint32_be(mem, at, chunk.name)
        m2 == write_uint32(m1, at + 4, Word32(chunk.data_length))
        m3 == Copy(m2, at + 8, chunk.data, 0, chunk.data_length)
    IN  IF Evaluated(m1) /\ Evaluated(m2)
        THEN [mem |-> m3, written |-> 8 + chunk.data_length]
        ELSE [mem |-> mem, written |-> 0]

\* ---- SpecTmap: create_tmap_chunk, one action per pass of its loop

InitTmap ==
    /\ tm_pc = "create"
    /\ tm_chunk = NULL
    /\ tm_t = 0
    /\ byte_index = 0
    /\ EsIdle /\ TkIdle /\ MainIdle

\* What an action of create_tmap_chunk leaves alone.
TmFrame == UNCHANGED <<es_vars, tk_vars, main_vars>>

\* write_uint8(&chunk->data[byte_index++], value), and the t++ of the loop.
TmWrite(value) ==
    /\ tm_chunk' = WithData(tm_chunk, write_uint8(tm_chunk.data, byte_index, value))
    /\ byte_index' = byte_index + 1
    /\ tm_t' = tm_t + 1
    /\ UNCHANGED tm_pc

TmCreateChunk ==
    /\ tm_pc = "create"
    /\ \E allocated \in BOOLEAN :
          /\ tm_chunk' = create_chunk(TMAP, TMAP_DATA_LENGTH, allocated)
          /\ tm_pc' = IF allocated THEN "loop" ELSE "ret"
    /\ UNCHANGED <<tm_t, byte_index>>
    /\ TmFrame

\* case 0: case 1:
TmNominalTrack ==
    /\ tm_pc = "loop" /\ tm_t < TMAP_DATA_LENGTH
    /\ TmapInRange(tm_t) /\ tm_t % 4 \in {0, 1}
    /\ TmWrite(NominalTrack(tm_t))
    /\ TmFrame

\* case 2:
TmHalfTrack ==
    /\ tm_pc = "loop" /\ tm_t < TMAP_DATA_LENGTH
    /\ TmapInRange(tm_t) /\ tm_t % 4 = 2
    /\ TmWrite(255)
    /\ TmFrame

\* case 3:
TmNextTrack ==
    /\ tm_pc = "loop" /\ tm_t < TMAP_DATA_LENGTH
    /\ TmapInRange(tm_t) /\ tm_t % 4 = 3
    /\ TmWrite(NominalTrack(tm_t) + 1)
    /\ TmFrame

\* else
TmUnused ==
    /\ tm_pc = "loop" /\ tm_t < TMAP_DATA_LENGTH
    /\ ~TmapInRange(tm_t)
    /\ TmWrite(255)
    /\ TmFrame

TmReturn ==
    /\ tm_pc = "loop" /\ ~(tm_t < TMAP_DATA_LENGTH)
    /\ tm_pc' = "ret"
    /\ UNCHANGED <<tm_chunk, tm_t, byte_index>>
    /\ TmFrame

NextTmap ==
    \/ TmCreateChunk
    \/ TmNominalTrack
    \/ TmHalfTrack
    \/ TmNextTrack
    \/ TmUnused
    \/ TmReturn

SpecTmap == InitTmap /\ [][NextTmap]_vars

\* The two ways of running the function agree.
TmapStepsAgree ==
    tm_pc = "ret" => tm_chunk \in {create_tmap_chunk(TRUE), create_tmap_chunk(FALSE)}

---------------------------------------------------------------------------
(* main                                                                    *)

\* The input file names: "a.dsk" and "a.po".
InputNames == { << 97, 46, 100, 115, 107 >>, << 97, 46, 112, 111 >> }

\* strlen(argv[1]) > 3 && strncmp(&(argv[1][strlen(argv[1])-3]), ".po", 3) == 0
EndsWithPo(name) ==
    /\ Len(name) > 3
    /\ SubSeq(name, Len(name) - 2, Len(name)) = << 46, 112, 111 >>

\* What fread can return: the file is shorter than a disk image, or not.
ReadCounts == {0, DSK_IMAGE_SIZE - 1, DSK_IMAGE_SIZE}

\* What is printed.
MsgUsage == "USAGE: dsk2woz2 input.dsk output.woz"
MsgOpenInput == "ERROR: could not open %s for reading"
MsgNotImage == "ERROR: file %s does not appear to be a 16-sector 5.25 disk image"
MsgAllocation == "ERROR: memory allocation failed"
MsgOpenOutput == "ERROR: Could not open %s for writing"
MsgWrite == "ERROR: Could not write full WOZ image"

Init ==
    /\ pc = "start"
    /\ argc \in {2, 3}
    /\ argv1 \in InputNames
    /\ image \in 0..MaxMainImage
    /\ fmt = dsk_sector_format_dos_3_3
    /\ t = 0
    /\ track_data = <<>>
    /\ valid_bits_per_track = 0
    /\ info_chunk = NULL /\ tmap_chunk = NULL /\ trks_chunk = NULL /\ writ_chunk = NULL
    /\ woz = <<>> /\ woz_image_size = 0 /\ output_index = 0 /\ crc = ZERO32
    /\ out_file = <<>> /\ stdout = "" /\ ret = 0
    /\ EsIdle /\ TkIdle /\ TmIdle

\* What an action of main leaves alone.
MainFrame == UNCHANGED <<es_vars, tk_vars, tm_vars, argc, argv1, image>>

\* printf(message); return code;
Return(message, code) ==
    /\ stdout' = message
    /\ ret' = code
    /\ pc' = "done"

\* Control moves on and nothing is printed.
Goto(label) ==
    /\ pc' = label
    /\ UNCHANGED <<stdout, ret>>

chunk_vars == <<info_chunk, tmap_chunk, trks_chunk, writ_chunk>>
out_vars == <<woz, woz_image_size, output_index, crc, out_file>>

MainUsageError ==
    /\ pc = "start" /\ argc # 3
    /\ Return(MsgUsage, 0 - 1)
    /\ UNCHANGED <<fmt, t, track_data, valid_bits_per_track, chunk_vars, out_vars>>
    /\ MainFrame

MainArguments ==
    /\ pc = "start" /\ ~(argc # 3)
    /\ Goto("fopen_dsk")
    /\ UNCHANGED <<fmt, t, track_data, valid_bits_per_track, chunk_vars, out_vars>>
    /\ MainFrame

MainOpenInputFails ==
    /\ pc = "fopen_dsk"
    /\ Return(MsgOpenInput, 0 - 2)
    /\ UNCHANGED <<fmt, t, track_data, valid_bits_per_track, chunk_vars, out_vars>>
    /\ MainFrame

MainOpenInput ==
    /\ pc = "fopen_dsk"
    /\ Goto("fread")
    /\ UNCHANGED <<fmt, t, track_data, valid_bits_per_track, chunk_vars, out_vars>>
    /\ MainFrame

MainReadShort ==
    /\ pc = "fread"
    /\ \E bytes_read \in ReadCounts :
          /\ bytes_read # DSK_IMAGE_SIZE
          /\ Return(MsgNotImage, 0 - 2)
    /\ UNCHANGED <<fmt, t, track_data, valid_bits_per_track, chunk_vars, out_vars>>
    /\ MainFrame

MainRead ==
    /\ pc = "fread"
    /\ \E bytes_read \in ReadCounts :
          /\ ~(bytes_read # DSK_IMAGE_SIZE)
          /\ Goto("sector_format")
    /\ UNCHANGED <<fmt, t, track_data, valid_bits_per_track, chunk_vars, out_vars>>
    /\ MainFrame

MainSectorFormat ==
    /\ pc = "sector_format"
    /\ fmt' = IF EndsWithPo(argv1) THEN dsk_sector_format_prodos
              ELSE dsk_sector_format_dos_3_3
    /\ Goto("encode")
    /\ UNCHANGED <<t, track_data, valid_bits_per_track, chunk_vars, out_vars>>
    /\ MainFrame


\* One pass of the loop over the tracks. encode_bits_for_track writes every
\* byte of its dest and every byte of its encoded_contents before it reads
\* them (TrackStepsAgree), so what the stack held does not matter.
MainEncodeTrack ==
    /\ pc = "encode" /\ t < TRACKS_PER_DISK
    /\ \E w \in {encode_bits_for_track(TrackSrc(image, t), t, fmt,
                                       UninitializedContents(0), 0)} :
          /\ track_data' = Copy(track_data, t * BITS_TRACK_SIZE, w.buffer, 0,
                                 BITS_TRACK_SIZE)
          /\ valid_bits_per_track' = w.index
    /\ t' = t + 1
    /\ Goto(IF t + 1 < TRACKS_PER_DISK THEN "encode" ELSE "create_chunks")
    /\ UNCHANGED <<fmt, chunk_vars, out_vars>>
    /\ MainFrame

\* The four chunks are created one after the other; the calloc of each
\* succeeds or fails on its own. The TRKS and the WRIT chunk of a
\* successful calloc are computed once for all the outcomes of the others.
MainCreateChunks ==
    /\ pc = "create_chunks"
    /\ \E trks \in {create_trks_chunk(track_data, valid_bits_per_track, TRUE)},
          writ \in {create_writ_chunk(track_data, valid_bits_per_track, TRUE)} :
          \E info_allocated, tmap_allocated, trks_allocated, writ_allocated \in BOOLEAN :
             /\ info_chunk' = create_info_chunk(info_allocated)
             /\ tmap_chunk' = create_tmap_chunk(tmap_allocated)
             /\ trks_chunk' = IF trks_allocated THEN trks
                              ELSE create_trks_chunk(track_data, valid_bits_per_track,
                                                     FALSE)
             /\ writ_chunk' = IF writ_allocated THEN writ
                              ELSE create_writ_chunk(track_data, valid_bits_per_track,
                                                     FALSE)
    /\ Goto("check_chunks")
    /\ UNCHANGED <<fmt, t, track_data, valid_bits_per_track, out_vars>>
    /\ MainFrame

\* !info_chunk || !tmap_chunk || !trks_chunk || !writ_chunk
AnyChunkMissing == NULL \in {info_chunk, tmap_chunk, trks_chunk, writ_chunk}

MainChunkAllocationFails ==
    /\ pc = "check_chunks" /\ AnyChunkMissing
    /\ Return(MsgAllocation, 0 - 2)
    /\ UNCHANGED <<fmt, t, track_data, valid_bits_per_track, chunk_vars, out_vars>>
    /\ MainFrame

MainImageSize ==
    /\ pc = "check_chunks" /\ ~AnyChunkMissing
    /\ woz_image_size' = WOZ_HEADER_SIZE + total_chunk_size(info_chunk)
                                         + total_chunk_size(tmap_chunk)
                                         + total_chunk_size(trks_chunk)
                                         + total_chunk_size(writ_chunk)
    /\ Goto("malloc")
    /\ UNCHANGED <<fmt, t, track_data, valid_bits_per_track, chunk_vars,
                   woz, output_index, crc, out_file>>
    /\ MainFrame

MainMallocFails ==
    /\ pc = "malloc"
    /\ Return(MsgAllocation, 0 - 2)
    /\ UNCHANGED <<fmt, t, track_data, valid_bits_per_track, chunk_vars, out_vars>>
    /\ MainFrame

\* malloc gives a block of woz_image_size bytes, none of them written.
MainMalloc ==
    /\ pc = "malloc"
    /\ woz' = Fill(woz_image_size, Indeterminate)
    /\ Goto("header")
    /\ UNCHANGED <<fmt, t, track_data, valid_bits_per_track, chunk_vars,
                   woz_image_size, output_index, crc, out_file>>
    /\ MainFrame

\* The header but for the CRC, and size_t output_index = WOZ_HEADER_SIZE.
MainHeader ==
    /\ pc = "header"
    /\ woz' = Store(write_uint32_be(woz, 0, WOZ2), 4, << 255, 10, 13, 10 >>)
    /\ output_index' = WOZ_HEADER_SIZE
    /\ Goto("write_info")
    /\ UNCHANGED <<fmt, t, track_data, valid_bits_per_track, chunk_vars,
                   woz_image_size, crc, out_file>>
    /\ MainFrame


\* output_index += write_chunk(&woz[output_index], chunk)
WriteChunk(chunk, after) ==
    /\ \E w \in {write_chunk(woz, output_index, chunk)} :
          /\ woz' = w.mem
          /\ output_index' = output_index + w.written
    /\ Goto(after)
    /\ UNCHANGED <<fmt, t, track_data, valid_bits_per_track, chunk_vars,
                   woz_image_size, crc, out_file>>
    /\ MainFrame

MainWriteInfo == pc = "write_info" /\ WriteChunk(info_chunk, "write_tmap")

MainWriteTmap == pc = "write_tmap" /\ WriteChunk(tmap_chunk, "write_trks")

MainWriteTrks == pc = "write_trks" /\ WriteChunk(trks_chunk, "write_writ")

MainWriteWrit == pc = "write_writ" /\ WriteChunk(writ_chunk, "free_chunks")

\* The four calls of free_chunk.
MainFreeChunks ==
    /\ pc = "free_chunks"
    /\ info_chunk' = NULL /\ tmap_chunk' = NULL /\ trks_chunk' = NULL /\ writ_chunk' = NULL
    /\ Goto("crc32")
    /\ UNCHANGED <<fmt, t, track_data, valid_bits_per_track, out_vars>>
    /\ MainFrame

MainCrc ==
    /\ pc = "crc32"
    /\ crc' = crc32(ZERO32, woz, WOZ_HEADER_SIZE, woz_image_size - WOZ_HEADER_SIZE)
    /\ Goto("write_crc")
    /\ UNCHANGED <<fmt, t, track_data, valid_bits_per_track, chunk_vars,
                   woz, woz_image_size, output_index, out_file>>
    /\ MainFrame

MainWriteCrc ==
    /\ pc = "write_crc"
    /\ woz' = write_uint32(woz, 8, crc)
    /\ Goto("fopen_woz")
    /\ UNCHANGED <<fmt, t, track_data, valid_bits_per_track, chunk_vars,
                   woz_image_size, output_index, crc, out_file>>
    /\ MainFrame

MainOpenOutputFails ==
    /\ pc = "fopen_woz"
    /\ Return(MsgOpenOutput, 0 - 5)
    /\ UNCHANGED <<fmt, t, track_data, valid_bits_per_track, chunk_vars, out_vars>>
    /\ MainFrame

MainOpenOutput ==
    /\ pc = "fopen_woz"
    /\ Goto("fwrite")
    /\ UNCHANGED <<fmt, t, track_data, valid_bits_per_track, chunk_vars, out_vars>>
    /\ MainFrame

\* What fwrite can return: everything was written, or the device was full.
WriteCounts == {0, woz_image_size}

\* fwrite put the first bytes_written bytes of woz into the file; free(woz).
Written_to_file(bytes_written) ==
    /\ out_file' = Take(woz, bytes_written)
    /\ woz' = <<>>

MainWriteShort ==
    /\ pc = "fwrite"
    /\ \E bytes_written \in WriteCounts :
          /\ bytes_written # woz_image_size
          /\ Written_to_file(bytes_written)
          /\ Return(MsgWrite, 0 - 6)
    /\ UNCHANGED <<fmt, t, track_data, valid_bits_per_track, chunk_vars,
                   woz_image_size, output_index, crc>>
    /\ MainFrame

MainWrite ==
    /\ pc = "fwrite"
    /\ \E bytes_written \in WriteCounts :
          /\ ~(bytes_written # woz_image_size)
          /\ Written_to_file(bytes_written)
          /\ Return("", 0)
    /\ UNCHANGED <<fmt, t, track_data, valid_bits_per_track, chunk_vars,
                   woz_image_size, output_index, crc>>
    /\ MainFrame

Next ==
    \/ MainUsageError
    \/ MainArguments
    \/ MainOpenInputFails
    \/ MainOpenInput
    \/ MainReadShort
    \/ MainRead
    \/ MainSectorFormat
    \/ MainEncodeTrack
    \/ MainCreateChunks
    \/ MainChunkAllocationFails
    \/ MainImageSize
    \/ MainMallocFails
    \/ MainMalloc
    \/ MainHeader
    \/ MainWriteInfo
    \/ MainWriteTmap
    \/ MainWriteTrks
    \/ MainWriteWrit
    \/ MainFreeChunks
    \/ MainCrc
    \/ MainWriteCrc
    \/ MainOpenOutputFails
    \/ MainOpenOutput
    \/ MainWriteShort
    \/ MainWrite

Spec == Init /\ [][Next]_vars

---------------------------------------------------------------------------
(* The claims                                                              *)

\* The physical and the logical sector numbers of a track.
Sectors == 0..(SECTORS_PER_TRACK - 1)

\* Where encode_bits_for_track is while it writes the data field of
\* physical sector s and what follows it: logical_sector is then the
\* logical sector chosen for s.
InSector == tk_pc \in {"data", "depilogue", "tail", "next"}

\* C1: the sector interleave is a bijection from the physical sectors
\* 0..15 onto the logical sectors 0..15, in both formats: the logical sector
\* the encoder has chosen for the physical sector it is writing is in 0..15,
\* no other physical sector is given the same logical sector, and every
\* logical sector is given to some physical sector.
C1_InterleaveBijection ==
    InSector =>
        /\ logical_sector \in Sectors
        /\ \A other \in Sectors :
              LogicalSector(other, sector_format) = logical_sector => other = s
        /\ \A logical \in Sectors :
              \E physical \in Sectors : LogicalSector(physical, sector_format) = logical

\* Physical sector 1 of a ProDOS track is filled from logical sector 8.
C1_Witness ==
    /\ tk_pc = "next" /\ s = 1 /\ logical_sector = 8
    /\ sector_format = dsk_sector_format_prodos

\* The bits of a track: the leader, sixteen sectors of an address field
\* (14 bytes), the gap, the data field (3 + 343 + 3 bytes), the syncs
\* between two sectors, and the byte after the last sector.
TrackBits ==
    TRACK_LEADER_SYNC_COUNT * 10
    + SECTORS_PER_TRACK * ((14 + 3 + BITS_SECTOR_CONTENTS_SIZE + 3) * 8 + GAP_SYNC_COUNT * 10)
    + (SECTORS_PER_TRACK - 1) * SECTOR_SYNC_COUNT * 10
    + 8

\* main has encoded at least one track.
SomeTrackEncoded ==
    \/ pc = "encode" /\ t > 0
    \/ pc \in {"create_chunks", "check_chunks"}

\* C2: encode_bits_for_track returns the same count of valid bits for
\* every track and either format, a count of at most 53,248: what main
\* holds after each of the 35 calls, and hands to the builders of TRKS and
\* WRIT, is that one count.
C2_ValidBitCount ==
    SomeTrackEncoded =>
        /\ valid_bits_per_track = TrackBits
        /\ valid_bits_per_track <= BITS_TRACK_SIZE * 8

\* All 35 tracks of a ProDOS image are encoded.
C2_Witness ==
    /\ pc = "create_chunks" /\ fmt = dsk_sector_format_prodos
    /\ t = TRACKS_PER_DISK
    /\ valid_bits_per_track = TrackBits


\* The 343 positions of an encoded sector.
Positions == 0..(BITS_SECTOR_CONTENTS_SIZE - 1)

\* The bytes of the nibble table.
Nibbles == { six_and_two_mapping[k] : k \in 1..Len(six_and_two_mapping) }

\* C3: encode_6_and_2 is deterministic and produces exactly 343 bytes,
\* each a member of the 64-entry nibble table: when the mapping step
\* begins, each of the 343 values is at most 0x3F, so no lookup is past the
\* table; the result does not depend on what dest held before the call nor
\* on what lies behind the table.
C3_LegalNibbles ==
    /\ es_pc = "map" =>
          /\ DOMAIN es_dest = Positions
          /\ \A c \in Positions : es_dest[c] \in 0..63
    /\ es_pc = "done" =>
          /\ DOMAIN es_dest = Positions
          /\ \A c \in Positions : es_dest[c] \in Nibbles
          /\ \A u \in Uninitialized, oob \in OutOfBounds :
                es_dest = encode_6_and_2(UninitializedContents(u), es_src, oob)

\* A sector of mixed bytes is encoded, from a dest that held 0xA5s: the
\* chain has left a value with all six bits set for the table.
C3_Witness ==
    /\ es_pc = "done"
    /\ es_src = <<0, 0>>
    /\ \E c \in Positions : es_dest[c] = At(six_and_two_mapping, 63)
    /\ \E c \in Positions : es_dest[c] # At(six_and_two_mapping, 63)

\* Bit n of byte v, and the places where v has two adjacent zero bits.
Bit(v, n) == (v \div Pow2(n)) % 2
ZeroPairs(v) == { n \in 0..6 : Bit(v, n) = 0 /\ Bit(v, n + 1) = 0 }

\* C4 as stated: no entry of the nibble table, and so none of the 343
\* bytes of an encoded sector, has two adjacent zero bits.
C4_NoAdjacentZeros ==
    /\ \A v \in Nibbles : ZeroPairs(v) = {}
    /\ es_pc = "done" => \A c \in Positions : ZeroPairs(es_dest[c]) = {}

\* C4: every entry of the nibble table has its high bit set and at most
\* one pair of adjacent zero bits, and so has each of the 343 bytes of an
\* encoded sector.
C4_AtMostOneZeroPair ==
    /\ \A v \in Nibbles : Bit(v, 7) = 1 /\ Cardinality(ZeroPairs(v)) <= 1
    /\ es_pc = "done" =>
          \A c \in Positions :
             Bit(es_dest[c], 7) = 1 /\ Cardinality(ZeroPairs(es_dest[c])) <= 1

\* An encoded sector holds 0x96, whose bits 5 and 6 are both zero.
C4_Witness ==
    /\ es_pc = "done"
    /\ \E c \in Positions : es_dest[c] = 150 /\ ZeroPairs(es_dest[c]) = {5}

\* The 343 values before the XOR chain: the low bits, the high parts and
\* the duplicate of the last one.
Orig == DupLast(Array(HighBits(Array(LowBits(UninitializedContents(0), es_src)), es_src)))

\* C11 as stated: after the chain each position from 1 to 342 holds its
\* own value before the chain XORed with that of its predecessor, and
\* position 0 is as it was.
C11_ChainTo342 ==
    es_pc = "map" =>
        \E orig \in {Orig} :
           /\ \A c \in 1..342 : es_dest[c] = BitXor(orig[c], orig[c - 1])
           /\ es_dest[0] = orig[0]

\* C11: the chain runs from position 341 down to position 1. Each of
\* these positions ends as its own value before the chain XORed with that
\* of its predecessor: when a position is reached its predecessor is not
\* yet changed. Position 342 stays the duplicate of what position 341 held
\* before the chain, and position 0 is as it was.
C11_XorChain ==
    es_pc \in {"xor", "map"} =>
        \E orig \in {Orig} :
           /\ \A c \in 1..341 :
                 es_dest[c] = IF es_pc = "map" \/ c >= es_location
                              THEN BitXor(orig[c], orig[c - 1])
                              ELSE orig[c]
           /\ es_dest[342] = orig[341]
           /\ es_dest[0] = orig[0]

\* The chain is over for a sector whose last high part is not zero:
\* position 342 still holds it, position 341 is changed.
C11_Witness ==
    /\ es_pc = "map"
    /\ Orig[341] # 0
    /\ es_dest[342] = Orig[341]
    /\ es_dest[341] # Orig[341]


\* The quarter-track positions of the TMAP, and those whose entry in the
\* chunk create_tmap_chunk returned is a track number, and is 0xFF.
QuarterTracks == 0..(TMAP_DATA_LENGTH - 1)
Populated == { q \in QuarterTracks : Load(tm_chunk.data, q) # 255 }
Unused == { q \in QuarterTracks : Load(tm_chunk.data, q) = 255 }

\* create_tmap_chunk has returned a chunk.
TmapBuilt == tm_pc = "ret" /\ tm_chunk # NULL

\* C5 as stated: the TMAP payload has exactly 139 populated entries, the
\* positions 0..138, and exactly 21 entries 0xFF, the positions 139..159.
C5_Populated139 ==
    TmapBuilt =>
        /\ tm_chunk.data_length = 160 /\ Size(tm_chunk.data) = 160
        /\ Populated = 0..138 /\ Cardinality(Populated) = 139
        /\ Unused = 139..159 /\ Cardinality(Unused) = 21

\* C5: the 160-byte TMAP payload has exactly 104 populated entries, the
\* positions q in 0..138 with q mod 4 # 2, each holding a track number in
\* 0..34, and exactly 56 entries 0xFF: the 35 positions q in 0..138 with
\* q mod 4 = 2 and the positions 139..159.
C5_Populated104 ==
    TmapBuilt =>
        /\ tm_chunk.data_length = 160 /\ Size(tm_chunk.data) = 160
        /\ Populated = { q \in 0..138 : q % 4 # 2 } /\ Cardinality(Populated) = 104
        /\ \A q \in Populated : Load(tm_chunk.data, q) \in 0..(TRACKS_PER_DISK - 1)
        /\ Unused = { q \in 0..138 : q % 4 = 2 } \cup 139..159
        /\ Cardinality(Unused) = 56

\* The chunk is built: position 2 and position 138 are 0xFF, position 137
\* maps to track 34.
C5_Witness ==
    /\ TmapBuilt
    /\ Load(tm_chunk.data, 2) = 255 /\ Load(tm_chunk.data, 138) = 255
    /\ Load(tm_chunk.data, 137) = 34


\* main has returned 0: out_file is the output it produced.
Produced == pc = "done" /\ ret = 0

\* The bytes at offsets at .. at + n - 1 of mem.
Slice(mem, at, n) == [k \in 1..n |-> Load(mem, at + k - 1)]

\* The field at header bytes 8..11, as the bytes of a uint32_t, least
\* significant first.
HeaderCrc(mem) == Slice(mem, 8, 4)

\* The bytes of a and b from offset WOZ_HEADER_SIZE on are the same.
SameAfterHeader(a, b) ==
    /\ Size(a) = Size(b)
    /\ \A k \in WOZ_HEADER_SIZE..(Size(a) - 1) : Load(a, k) = Load(b, k)

\* The file offsets at which the four chunks begin.
InfoAt == WOZ_HEADER_SIZE
TmapAt == InfoAt + 8 + INFO_DATA_LENGTH
TrksAt == TmapAt + 8 + TMAP_DATA_LENGTH
WritAt == TrksAt + 8 + TRK_TABLE_SIZE + TRACKS_PER_DISK * BITS_TRACK_SIZE

\* The four chunks are serialized in buffer mem: each begins with its
\* name, the write cursor is at the end of the buffer.
Serialized(mem) ==
    /\ Slice(mem, InfoAt, 4) = << 73, 78, 70, 79 >>
    /\ Slice(mem, TmapAt, 4) = << 84, 77, 65, 80 >>
    /\ Slice(mem, TrksAt, 4) = << 84, 82, 75, 83 >>
    /\ Slice(mem, WritAt, 4) = << 87, 82, 73, 84 >>
    /\ output_index = woz_image_size
    /\ output_index = Size(mem)

\* The digits "123456789", whose CRC-32 is 0xCBF43926.
CheckDigits == Build(9, LAMBDA k : 49 + k)

\* What holds of the states of main for C6: crc32 is the CRC-32; the
\* chunks are serialized when it is computed; the field of an output is
\* the CRC-32 of what follows the header.
C6_State ==
    /\ crc32(ZERO32, CheckDigits, 0, 9) = << 38, 57, 244, 203 >>
    /\ pc = "crc32" => Serialized(woz)
    /\ Produced =>
          /\ Size(out_file) > WOZ_HEADER_SIZE
          /\ HeaderCrc(out_file)
                = crc32(ZERO32, out_file, WOZ_HEADER_SIZE, Size(out_file) - WOZ_HEADER_SIZE)

\* What holds of the steps of main for C6.
C6_Step ==
    /\ pc \in {"write_crc", "fopen_woz"} => SameAfterHeader(woz, woz')
    /\ pc = "fwrite" /\ ret' = 0 => out_file' = woz

\* C6: in every output of main the little-endian field at header bytes
\* 8..11 is the CRC-32 of the bytes from offset 12 to the end of the file,
\* and of no others; the CRC is computed when the four chunks are
\* serialized, and from then on no byte at an offset of 12 or more is
\* changed until the buffer is written to the file.
C6_ContainerCrc == [](C6_State) /\ [][C6_Step]_vars

\* The output for the ProDOS image is produced: its CRC field holds
\* 0xD2B5E1E7.
C6_Witness ==
    /\ Produced /\ fmt = dsk_sector_format_prodos /\ image = 0
    /\ HeaderCrc(out_file) = << 231, 225, 181, 210 >>

\* The size of every output.
OutputSize == 12 + 68 + 168 + (1288 + 35 * 6656) + 708

\* C7: the output has the fixed size 12 + 68 + 168 + (1288 + 35*6656) +
\* 708, which is 12 plus the sum over the four chunks of 8 + payload
\* length; the buffer allocated has that size and keeps it; the write
\* cursor advances by the size of each chunk and after the four
\* write_chunk calls is woz_image_size, no byte after the CRC field being
\* left unwritten.
C7_OutputSize ==
    /\ pc = "malloc" =>
          /\ woz_image_size = OutputSize
          /\ woz_image_size = WOZ_HEADER_SIZE + (8 + info_chunk.data_length)
                                              + (8 + tmap_chunk.data_length)
                                              + (8 + trks_chunk.data_length)
                                              + (8 + writ_chunk.data_length)
    /\ pc \in {"header", "write_info", "write_tmap", "write_trks", "write_writ",
               "free_chunks", "crc32", "write_crc", "fopen_woz", "fwrite"} =>
          /\ woz_image_size = OutputSize
          /\ Size(woz) = woz_image_size
    /\ pc = "write_info" => output_index = InfoAt
    /\ pc = "write_tmap" => output_index = TmapAt
    /\ pc = "write_trks" => output_index = TrksAt
    /\ pc = "write_writ" => output_index = WritAt
    /\ pc = "free_chunks" =>
          /\ output_index = woz_image_size
          /\ \A k \in WOZ_HEADER_SIZE..(Size(woz) - 1) : Load(woz, k) \in 0..255
    /\ Produced => Size(out_file) = OutputSize

\* The four chunks of the ProDOS image are written into the buffer.
C7_Witness ==
    /\ pc = "free_chunks" /\ fmt = dsk_sector_format_prodos
    /\ output_index = 235204 /\ Size(woz) = 235204

\* The failure classes, and the class of a run that ended, from what it
\* printed.
Outcome ==
    CASE stdout = MsgUsage -> "usage"
      [] stdout \in {MsgOpenInput, MsgNotImage} -> "input"
      [] stdout = MsgAllocation -> "memory"
      [] stdout \in {MsgOpenOutput, MsgWrite} -> "output"
      [] OTHER -> "success"

\* The exit codes of each class.
ExitCodes ==
    [usage |-> {0 - 1}, input |-> {0 - 2}, memory |-> {0 - 2},
     output |-> {0 - 5, 0 - 6}, success |-> {0}]

\* C8 as stated: main returns 0 on success and a nonzero code otherwise,
\* and no two failure classes (usage, input, memory allocation, output)
\* end with the same code.
C8_DistinctExitCodes ==
    pc = "done" =>
        /\ ret \in ExitCodes[Outcome]
        /\ (ret = 0) = (Outcome = "success")
        /\ \A other \in DOMAIN ExitCodes \ {Outcome} : ret \notin ExitCodes[other]

\* A uint16_t read from offset at of mem.
ReadU16(mem, at) == Load(mem, at) + 256 * Load(mem, at + 1)

\* Track k's starting block and block count in the TRKS directory found
\* at offset at of mem.
StartingBlock(mem, at, k) == ReadU16(mem, at + 8 * k)
BlockCount(mem, at, k) == ReadU16(mem, at + 8 * k + 2)

\* Track k's encoded buffer is what mem holds from offset at on.
TrackAt(mem, at, k) ==
    \A b \in 0..(BITS_TRACK_SIZE - 1) :
       Load(mem, at + b) = Load(track_data, k * BITS_TRACK_SIZE + b)

\* The directory found at offset at of mem holds 3 + 13 * k and 13 for
\* every track k.
Directory(mem, at) ==
    \A k \in 0..(TRACKS_PER_DISK - 1) :
       /\ StartingBlock(mem, at, k) = 3 + 13 * k
       /\ BlockCount(mem, at, k) = 13

\* C10: entry i of the TRKS directory holds starting block 3 + 13 * i
\* and block count 13; the bit data begin 1,280 bytes into the TRKS
\* payload; and in the assembled file track i's 6,656 bytes begin at file
\* offset 512 times the starting block its entry holds.
C10_TrackBlocks ==
    /\ pc = "check_chunks" /\ trks_chunk # NULL =>
          /\ Directory(trks_chunk.data, 0)
          /\ \A k \in 0..(TRACKS_PER_DISK - 1) :
                TrackAt(trks_chunk.data, 1280 + k * BITS_TRACK_SIZE, k)
    /\ pc = "free_chunks" =>
          /\ Directory(woz, TrksAt + 8)
          /\ \A k \in 0..(TRACKS_PER_DISK - 1) :
                TrackAt(woz, 512 * StartingBlock(woz, TrksAt + 8, k), k)
    /\ Produced =>
          /\ Directory(out_file, TrksAt + 8)
          /\ \A k \in 0..(TRACKS_PER_DISK - 1) :
                TrackAt(out_file, 512 * StartingBlock(out_file, TrksAt + 8, k), k)

\* The four chunks are in the buffer: the entry of track 34 holds block
\* 445, and byte 227,840 of the buffer is the first sync byte of track 34.
C10_Witness ==
    /\ pc = "free_chunks"
    /\ StartingBlock(woz, TrksAt + 8, 34) = 445
    /\ Load(woz, 227840) = 255
    /\ TrackAt(woz, 227840, 34)


\* The bit at bit offset b of mem, the most significant bit of a byte
\* first, and the eight bits from bit offset b on as a byte.
BitOf(mem, b) == (Load(mem, b \div 8) \div Pow2(7 - (b % 8))) % 2
ReadByte(mem, b) ==
    IF b % 8 = 0 THEN Load(mem, b \div 8)
    ELSE ((Load(mem, b \div 8) * 256 + Load(mem, (b \div 8) + 1)) \div Pow2(8 - (b % 8))) % 256

\* a and b are the same but for their bytes lo .. hi.
SameOutside(a, b, lo, hi) ==
    /\ Len(a) = Len(b)
    /\ \A p \in 1..Len(a) :
          IF (p - 1) * PageSize > hi \/ p * PageSize - 1 < lo
          THEN a[p] = b[p]
          ELSE /\ Len(a[p]) = Len(b[p])
               /\ \A l \in 1..Len(a[p]) :
                     IF \/ (p - 1) * PageSize + (l - 1) * LineSize > hi
                        \/ (p - 1) * PageSize + l * LineSize - 1 < lo
                     THEN a[p][l] = b[p][l]
                     ELSE /\ Len(a[p][l]) = Len(b[p][l])
                          /\ \A o \in 1..Len(a[p][l]) :
                                (p - 1) * PageSize + (l - 1) * LineSize + o - 1 \notin lo..hi
                                   => a[p][l][o] = b[p][l][o]

\* The bits of a track buffer, of a sector, and of what precedes the
\* data field and the syncs after it in a sector.
BufferBits == BITS_TRACK_SIZE * 8
AddressBits == 14 * 8
GapBits == GAP_SYNC_COUNT * 10
DataBits == (3 + BITS_SECTOR_CONTENTS_SIZE + 3) * 8
SectorBits == AddressBits + GapBits + DataBits + SECTOR_SYNC_COUNT * 10

\* The bit offset at which physical sector k begins.
SectorAt(k) == TRACK_LEADER_SYNC_COUNT * 10 + k * SectorBits

\* The bit offsets of the sync words of a track.
SyncOffsets ==
    { 10 * k : k \in 0..(TRACK_LEADER_SYNC_COUNT - 1) }
    \cup { SectorAt(k) + AddressBits + 10 * j :
              k \in Sectors, j \in 0..(GAP_SYNC_COUNT - 1) }
    \cup { SectorAt(k) + AddressBits + GapBits + DataBits + 10 * j :
              k \in 0..(SECTORS_PER_TRACK - 2), j \in 0..(SECTOR_SYNC_COUNT - 1) }

\* encode_bits_for_track is about to call the bit writer.
Writing == tk_pc \in {"leader", "addr", "gap", "dprologue", "data", "depilogue", "tail"}

\* What holds of the states of encode_bits_for_track for C12.
C12_State ==
    /\ Writing =>
          /\ bit_index + 8 <= BufferBits
          /\ bit_index \div 8 < BITS_TRACK_SIZE
          /\ bit_index % 8 # 0 => (bit_index \div 8) + 1 < BITS_TRACK_SIZE
    /\ tk_pc # "memset" => Size(dest) = BITS_TRACK_SIZE
    /\ tk_pc = "ret" =>
          /\ \A b \in bit_index..(8 * ((bit_index + 7) \div 8) - 1) : BitOf(dest, b) = 0
          /\ \A k \in ((bit_index + 7) \div 8)..(BITS_TRACK_SIZE - 1) : Load(dest, k) = 0
          /\ \A b \in SyncOffsets :
                /\ b + 10 <= bit_index
                /\ ReadByte(dest, b) = 255
                /\ BitOf(dest, b + 8) = 0 /\ BitOf(dest, b + 9) = 0

\* What holds of the steps of encode_bits_for_track for C12.
C12_Step ==
    /\ bit_index' >= bit_index
    /\ Writing =>
          /\ bit_index' \in {bit_index + 8, bit_index + 10}
          /\ SameOutside(dest, dest', bit_index \div 8, (bit_index + 7) \div 8)
          /\ \A b \in (8 * (bit_index \div 8))..(8 * ((bit_index + 7) \div 8) + 7) :
                b \notin bit_index..(bit_index + 7) => BitOf(dest', b) = BitOf(dest, b)
          /\ bit_index' = bit_index + 10 =>
                BitOf(dest', bit_index + 8) = 0 /\ BitOf(dest', bit_index + 9) = 0
    /\ ~Writing /\ tk_pc # "memset" => dest' = dest

\* C12: every call of the bit writer in encode_bits_for_track is at a
\* bit offset of at most 53,248 - 8 and touches bytes below 6,656 only,
\* the byte an unaligned write spills into included; the bit offset never
\* decreases; a call changes no bit outside the eight from its bit offset
\* on, and the two bits a sync word skips are zero after it; at the return
\* the two bits after each sync word, and all bits from the bit count
\* returned on, are zero.
C12_BitWrites == [](C12_State) /\ [][C12_Step]_vars

\* The second sync word of the leader is written, at bit offset 10: six
\* of its bits are in byte 1 and two have spilled into byte 2.
C12_Witness ==
    /\ tk_pc = "leader" /\ i = 2 /\ bit_index = 20
    /\ Load(dest, 0) = 255 /\ Load(dest, 1) = 63 /\ Load(dest, 2) = 192


\* main has encoded track t - 1: its buffer is in track_data, from bit
\* offset LastTrackAt on.
TrackEncoded == pc \in {"encode", "create_chunks"} /\ t > 0
LastTrackAt == 8 * (t - 1) * BITS_TRACK_SIZE

\* The bit offset in a track buffer at which the 343 bytes of the data
\* field of physical sector k begin, and the bits they take.
PayloadAt(k) == SectorAt(k) + AddressBits + GapBits + 3 * 8
PayloadBits == BITS_SECTOR_CONTENTS_SIZE * 8

\* Bit offset b of a track buffer is in the 343 bytes of a data field.
InPayload(b) ==
    /\ b >= PayloadAt(0)
    /\ (b - PayloadAt(0)) \div SectorBits < SECTORS_PER_TRACK
    /\ (b - PayloadAt(0)) % SectorBits < PayloadBits

\* The other sector format.
OtherFormat(format) ==
    IF format = dsk_sector_format_prodos THEN dsk_sector_format_dos_3_3
    ELSE dsk_sector_format_prodos

\* Track t - 1 of the image as encode_bits_for_track encodes it in the
\* other format.
LastTrackOtherwise ==
    encode_bits_for_track(TrackSrc(image, t - 1), t - 1, OtherFormat(fmt),
                          UninitializedContents(0), 0)

\* C9: for the same image, encode_bits_for_track with the DOS 3.3 flag
\* and with the ProDOS flag returns the same count of valid bits and
\* buffers that are the same in every bit outside the sixteen 343-byte
\* data-field payloads; the size of the container does not depend on the
\* flag either.
C9_FormatFrame ==
    /\ TrackEncoded =>
          \E other \in {LastTrackOtherwise} :
             /\ other.index = valid_bits_per_track
             /\ \A b \in 0..(BufferBits - 1) :
                   ~InPayload(b) =>
                       BitOf(track_data, LastTrackAt + b) = BitOf(other.buffer, b)
    /\ Produced => Size(out_file) = OutputSize

\* Track 0 of the DOS 3.3 image is encoded: the data field of physical
\* sector 1 is not what it is in the encoding of the image as ProDOS.
C9_Witness ==
    /\ pc = "encode" /\ t = 1 /\ fmt = dsk_sector_format_dos_3_3
    /\ \E c \in Positions :
          ReadByte(track_data, PayloadAt(1) + 8 * c)
             # ReadByte(LastTrackOtherwise.buffer, PayloadAt(1) + 8 * c)

\* The byte at bit offset b of the track main has encoded last.
TrackByte(b) == ReadByte(track_data, LastTrackAt + b)

\* A sync word is at bit offset b of that track: 0xFF and two zero bits.
SyncAt(b) ==
    /\ TrackByte(b) = 255
    /\ BitOf(track_data, LastTrackAt + b + 8) = 0
    /\ BitOf(track_data, LastTrackAt + b + 9) = 0

\* The bytes seq are at bit offset b of that track.
BytesAt(b, seq) == \A k \in 1..Len(seq) : TrackByte(b + 8 * (k - 1)) = seq[k]

\* The 4-and-4 encoding of byte b, and the byte two such bytes carry.
Encoded44(b) == << BitOr(b \div 2, 170), BitOr(b, 170) >>
Decoded44(first, second) == BitAnd(2 * first + 1, second)

\* The logical sector of physical sector k under the interleave rule.
Interleave(k) ==
    IF k = 15 THEN 15
    ELSE (k * (IF fmt = dsk_sector_format_prodos THEN 8 ELSE 7)) % 15

\* The 6-and-2 encoding of logical sector l of track t - 1 of the image.
EncodedSector(l) ==
    encode_6_and_2(UninitializedContents(0),
                   <<image, (t - 1) * BYTES_PER_TRACK + l * BYTES_PER_SECTOR>>, 0)

\* Physical sector k of the track main has encoded last is as C13 says.
SectorField(k) ==
    /\ BytesAt(SectorAt(k),
               <<213, 170, 150>> \o Encoded44(254) \o Encoded44(t - 1) \o Encoded44(k)
                  \o Encoded44(BitXor(BitXor(254, t - 1), k)) \o <<222, 170, 235>>)
    /\ Decoded44(TrackByte(SectorAt(k) + 56), TrackByte(SectorAt(k) + 64)) = k
    /\ \A j \in 0..6 : SyncAt(SectorAt(k) + AddressBits + 10 * j)
    /\ BytesAt(PayloadAt(k) - 24, <<213, 170, 173>>)
    /\ \E contents \in {EncodedSector(Interleave(k))} :
          \A c \in Positions : TrackByte(PayloadAt(k) + 8 * c) = contents[c]
    /\ BytesAt(PayloadAt(k) + PayloadBits, <<222, 170, 235>>)
    /\ IF k < 15
       THEN \A j \in 0..15 : SyncAt(PayloadAt(k) + PayloadBits + 24 + 10 * j)
       ELSE /\ TrackByte(PayloadAt(k) + PayloadBits + 24) = 255
            /\ valid_bits_per_track = PayloadAt(k) + PayloadBits + 24 + 8
            /\ TrackByte(PayloadAt(k) + PayloadBits + 24 + 8) = 0

\* C13: every track begins with 64 leader sync words and holds the
\* physical sectors 0..15 in increasing order; the address field of
\* physical sector s of track t is D5 AA 96, the 4-and-4 encodings of 254,
\* t, s and 254 XOR t XOR s, and DE AA EB, and carries s; after 7 sync
\* words the data field holds the 6-and-2 encoding of the input sector at
\* logical index L(s) of track t; 16 sync words follow every sector but the
\* last, which a single FF byte follows.
C13_TrackLayout ==
    TrackEncoded =>
        /\ \A j \in 0..63 : SyncAt(10 * j)
        /\ \A k \in Sectors : SectorField(k)

\* Track 1 of the ProDOS image is encoded: the address field of its
\* physical sector 1 carries 1, and its data field is the encoding of
\* logical sector 8, which is not that of logical sector 1.
C13_Witness ==
    /\ pc = "encode" /\ t = 2 /\ fmt = dsk_sector_format_prodos
    /\ BytesAt(SectorAt(1) + 40, << 170, 171, 170, 171 >>)
    /\ Interleave(1) = 8
    /\ \E c \in Positions :
          TrackByte(PayloadAt(1) + 8 * c) # EncodedSector(1)[c]

===========================================================================
